---- MODULE Spec2Model ----
(***************************************************************************)
(* Presence and real-time delivery core of the chat server                 *)
(* (server/routes.ts registerRoutes, server/storage.ts DbStorage).          *)
(*                                                                         *)
(* One action is one callback of the Node event loop run up to its next    *)
(* await: the synchronous part of a handler is atomic, the awaited         *)
(* persistence call is applied by the database at a later step, and the    *)
(* continuation after the await runs at a still later step.                *)
(***************************************************************************)
EXTENDS Integers, Sequences, FiniteSets, Bags, TLC

\* ---------------------------------------------------------------- bounds
NConns == 2
NUsers == 2
MaxPending == 2
MaxMessages == 1
MaxStored == 2
\* the chat summary is computed over tables of up to MaxRows rows exchanged
\* by NChatUsers users at MaxTime + 1 different instants
MaxRows == 3
\* the account routes draw up to MaxTokens verification tokens, the server's
\* clock is read at MaxClock + 1 instants and MaxUsers is one more than the
\* number of emails, an id of no row
MaxTokens == 3
MaxClock == 2
MaxUsers == 3
\* a page makes up to MaxCalls connect() calls and creates up to MaxSockets
\* WebSockets
MaxCalls == 2
MaxSockets == 6
\* in the specification of unauthenticated sockets the sockets 1..NHosts
\* authenticate
NHosts == 1
NChatUsers == 3
MaxTime == 2
NTabs == 2

Conns == 1..NConns
Users == 1..NUsers
Tabs == 1..NTabs
NoConn == 0
NoUser == 0

\* req.body.content and req.body.mediaUrl values tried by the requests
Contents == {"hello", " "}
MediaUrls == {"", "/uploads/a.png"}
NULL == "null"

VARIABLES
    readyState,   \* ws.readyState of every server-side socket ("NONE": no socket)
    userId,       \* ws.userId (NoUser: undefined or another falsy value)
    isAlive,      \* ws.isAlive
    terminated,   \* sockets destroyed by ws.terminate()
    clients,      \* the registry Map<number, ExtWebSocket>
    online,       \* users.online column of the persisted user rows
    messages,     \* the persisted messages table, in insertion order
    now,          \* the server clock read by new Date()
    users,        \* the persisted users table, in insertion order
    issued,       \* the number of verification tokens drawn from randomBytes(32)
    page,         \* one browser page's store, WebSockets and timers
    ponged,       \* history: the live sockets whose 'pong' handler ran since the last tick
    broken,       \* the OPEN sockets whose transport has failed (their 'error' and
                  \* 'close' events have not been handled yet)
    pending,      \* the bag of handlers suspended at an await (redundant:
                  \* history, whether the handler found its transition already
                  \* made: the user registered and online, or no entry to delete)
    lastOp,       \* history: the callback that ran last
    sent,         \* history: the frames the last callback passed to ws.send / ws.ping
    store         \* the useWebSocket store of every browser tab, with the retryCount
                  \* of its reconnect closure (evicted: history, the server closed
                  \* a socket of this tab to install another one; loggedOut:
                  \* history, disconnect() was called after connect())

vars == <<readyState, userId, isAlive, terminated, clients, online, messages, now,
          ponged, broken, pending, lastOp, sent, store, users, issued, page>>

\* ------------------------------------------------------------- helpers
Suspend(pend, h) == pend (+) SetToBag({h})
Settle(pend, h) == pend (-) SetToBag({h})

NoRow == [id |-> 0, senderId |-> NoUser, receiverId |-> NoUser, content |-> "",
          mediaUrl |-> NULL, createdAt |-> 0, deleted |-> FALSE]

\* wss.clients: the sockets the server tracks (removed on their 'close' event)
wssClients == {c \in Conns : readyState[c] \in {"OPEN", "CLOSING"}}

\* a socket on which a client frame can still arrive
Receiving(c) ==
    readyState[c] \in {"OPEN", "CLOSING"} /\ c \notin terminated /\ c \notin broken

\* WebSocket.close(): starts the closing handshake of an open socket
close(rs, c) ==
    IF c # NoConn /\ rs[c] = "OPEN" THEN [rs EXCEPT ![c] = "CLOSING"] ELSE rs

\* existingConnection.close(): called without a status code, so the close
\* frame carries none and the peer's close event reports 1005
EvictionCloseCode == "1005"

\* the status code of the close frame existingConnection.close() sends: the
\* call sends a frame only on an OPEN socket
closeFrame(rs, c) ==
    IF c # NoConn /\ rs[c] = "OPEN" THEN EvictionCloseCode ELSE "none"

\* A CLOSED socket that neither the registry nor a suspended handler refers
\* to can no longer act on the server: its slot is free for the next socket.
Unreferenced(rs, cl, pend) ==
    {c \in Conns : /\ rs[c] = "CLOSED"
                   /\ \A u \in Users : cl[u] # c
                   /\ \A h \in BagToSet(pend) : h.conn # c}

\* the effect of a callback on the sockets, the registry and the suspended handlers
Effect(rs, uid, alive, term, cl, pend) ==
    LET free == Unreferenced(rs, cl, pend)
    IN  /\ readyState' = [c \in Conns |-> IF c \in free THEN "NONE" ELSE rs[c]]
        /\ userId' = [c \in Conns |-> IF c \in free THEN NoUser ELSE uid[c]]
        /\ isAlive' = [c \in Conns |-> IF c \in free THEN FALSE ELSE alive[c]]
        /\ terminated' = term \ free
        /\ clients' = cl
        /\ pending' = pend
        /\ ponged' = {c \in ponged : rs[c] \in {"OPEN", "CLOSING"}}
        /\ broken' = {c \in broken : rs[c] \in {"OPEN", "CLOSING"}}

UserStatus(uid, on) == [type |-> "userStatus", userId |-> uid, online |-> on]
NewMessage(row) == [type |-> "newMessage", payload |-> row]

\* client.send(message) on an OPEN socket whose transport has failed: the ws
\* library hands the frame to the socket and reports the failure later, with
\* the socket's 'error' event; the call itself does not throw
SendThrowsOnFailure(c) == c \in broken
SendThrows(c) == FALSE

\* the registry values broadcastUserStatus visits that are OPEN
OpenClients ==
    LET open == SelectSeq([i \in 1..NUsers |-> i],
                          LAMBDA u : clients[u] # NoConn /\ readyState[clients[u]] = "OPEN")
    IN  [i \in 1..Len(open) |-> clients[open[i]]]
\* whether a send of the forEach throws (nothing catches it in the loop)
BroadcastAborts == \E i \in 1..Len(OpenClients) : SendThrows(OpenClients[i])
\* broadcastUserStatus(userId, online): one frame per registry value that is
\* OPEN (Array.from(clients.values()), here in the order of the keys), up to
\* the first send that throws
broadcastUserStatus(uid, on) ==
    LET stop == IF BroadcastAborts
                THEN CHOOSE i \in 1..Len(OpenClients) :
                         /\ SendThrows(OpenClients[i])
                         /\ \A j \in 1..(i - 1) : ~SendThrows(OpenClients[j])
                ELSE Len(OpenClients) + 1
    IN  [i \in 1..(stop - 1) |-> [to |-> OpenClients[i], ev |-> UserStatus(uid, on)]]

Init ==
    /\ readyState = [c \in Conns |-> "NONE"]
    /\ userId = [c \in Conns |-> NoUser]
    /\ isAlive = [c \in Conns |-> FALSE]
    /\ terminated = {}
    /\ clients = [u \in Users |-> NoConn]
    /\ online = [u \in Users |-> FALSE]
    /\ messages = <<>>
    /\ now = 0
    /\ users = <<>>
    /\ issued = 0
    /\ page = [socket |-> 0, isConnecting |-> FALSE, ws |-> <<>>, timers |-> {},
               calls |-> 0]
    /\ ponged = {}
    /\ broken = {}
    /\ pending = EmptyBag
    /\ lastOp = [type |-> "init"]
    /\ sent = <<>>
    /\ store = [t \in Tabs |-> [phase |-> "idle", userId |-> NoUser, socket |-> NoConn,
                                retryCount |-> 0, evicted |-> FALSE,
                                loggedOut |-> FALSE]]

\* the transport of an open socket fails (the peer is gone, the write side
\* is reset): the server learns it later, from the socket's 'error' and
\* 'close' events
TransportFailure(c) ==
    /\ readyState[c] = "OPEN"
    /\ c \notin broken
    /\ broken' = broken \cup {c}
    /\ lastOp' = [type |-> "transportFailure", conn |-> c]
    /\ sent' = <<>>
    /\ UNCHANGED <<page, users, issued, store, readyState, userId, isAlive, terminated, clients, online, messages,
                   now, ponged, pending>>

\* wss.on('connection'): a new socket is accepted (it takes the first free slot)
Connection(c) ==
    /\ readyState[c] = "NONE"
    /\ \A d \in Conns : d < c => readyState[d] # "NONE"
    /\ Effect([readyState EXCEPT ![c] = "OPEN"], userId,
              [isAlive EXCEPT ![c] = TRUE], terminated, clients, pending)
    /\ lastOp' = [type |-> "connection", conn |-> c]
    /\ sent' = <<>>
    /\ UNCHANGED <<page, users, issued, store, online, messages, now>>

\* ws.on('pong')
Pong(c) ==
    /\ Receiving(c)
    /\ isAlive' = [isAlive EXCEPT ![c] = TRUE]
    /\ ponged' = ponged \cup {c}
    /\ lastOp' = [type |-> "pong", conn |-> c]
    /\ sent' = <<>>
    /\ UNCHANGED <<page, users, issued, store, readyState, userId, terminated, clients, online, messages, now,
                   broken, pending>>

\* ws.on('message') case 'auth', up to its await: binds the socket to
\* payload.userId, closes the socket registered for that user, installs this
\* one and suspends at storage.setUserOnline(ws.userId, true)
MessageAuth(c, u) ==
    /\ Receiving(c)
    /\ IF u # NoUser
       THEN /\ BagCardinality(pending) < MaxPending
            /\ Effect(close(readyState, clients[u]), [userId EXCEPT ![c] = u],
                      isAlive, terminated, [clients EXCEPT ![u] = c],
                      Suspend(pending,
                          [kind |-> "auth", conn |-> c, user |-> u, value |-> TRUE,
                           phase |-> "issued", row |-> NoRow,
                           redundant |-> clients[u] # NoConn /\ online[u]]))
            /\ lastOp' = [type |-> "auth", conn |-> c, user |-> u,
                          existingConnection |-> clients[u],
                          closeCode |-> closeFrame(readyState, clients[u])]
       ELSE /\ Effect(readyState, [userId EXCEPT ![c] = u], isAlive, terminated,
                      clients, pending)
            /\ lastOp' = [type |-> "authIgnored", conn |-> c]
    /\ sent' = <<>>
    /\ UNCHANGED <<page, users, issued, store, online, messages, now>>

\* clients.get(key) for a key a frame carries (a key that is no user id, such
\* as undefined, has no entry)
clientsGet(key) == IF key \in Users THEN clients[key] ELSE NoConn

TypingEvent(uid) == [type |-> "typing", userId |-> uid]

\* the frames case 'typing' sends for a frame of socket c naming receiverId
TypingFromAnyone(c, receiverId) ==
    IF clientsGet(receiverId) # NoConn /\ readyState[clientsGet(receiverId)] = "OPEN"
    THEN <<[to |-> clientsGet(receiverId), ev |-> TypingEvent(userId[c])]>>
    ELSE <<>>
TypingNamesReceiver(c, receiverId) ==
    IF userId[c] # NoUser /\ clientsGet(receiverId) # NoConn
                          /\ readyState[clientsGet(receiverId)] = "OPEN"
    THEN <<[to |-> clientsGet(receiverId), ev |-> TypingEvent(receiverId)]>>
    ELSE <<>>
Typing(c, receiverId) ==
    IF userId[c] # NoUser /\ clientsGet(receiverId) # NoConn
                          /\ readyState[clientsGet(receiverId)] = "OPEN"
    THEN <<[to |-> clientsGet(receiverId), ev |-> TypingEvent(userId[c])]>>
    ELSE <<>>

\* ws.on('message') case 'typing': no await, nothing but the forwarded frame
MessageTyping(c, receiverId) ==
    /\ Receiving(c)
    /\ sent' = Typing(c, receiverId)
    /\ lastOp' = [type |-> "typing", conn |-> c, user |-> userId[c],
                  receiverId |-> receiverId]
    /\ UNCHANGED <<page, users, issued, store, readyState, userId, isAlive, terminated, clients, online, messages,
                   now, ponged, broken, pending>>

\* the frame of the catch block: ws.send of an error event (a socket that is
\* no longer OPEN sends nothing)
ErrorEvent == [type |-> "error", message |-> "Failed to process message"]
SendError(c) ==
    IF readyState[c] = "OPEN" THEN <<[to |-> c, ev |-> ErrorEvent]>> ELSE <<>>

\* frames whose handling throws: "json" does not parse, "authNoPayload" and
\* "typingNoPayload" parse but have no payload object
MalformedKinds == {"json", "authNoPayload", "typingNoPayload"}

\* whether the handler throws on such a frame: JSON.parse and
\* message.payload.userId always do, message.payload.receiverId is evaluated
\* only when the socket is bound
Throws(c, kind) == kind # "typingNoPayload" \/ userId[c] # NoUser

\* ws.on('message') on a frame of one of these kinds: the exception is thrown
\* before any assignment and the catch block answers
MessageMalformed(c, kind) ==
    /\ Receiving(c)
    /\ sent' = IF Throws(c, kind) THEN SendError(c) ELSE <<>>
    /\ lastOp' = [type |-> "malformed", conn |-> c, kind |-> kind]
    /\ UNCHANGED <<page, users, issued, store, readyState, userId, isAlive, terminated, clients, online, messages,
                   now, ponged, broken, pending>>

MalformedFrames == \E c \in Conns, kind \in MalformedKinds : MessageMalformed(c, kind)

\* typing{receiverId} frames; receiverId may name no user
TypingFrames == \E c \in Conns, r \in Users \cup {NoUser} : MessageTyping(c, r)

\* clients.delete(ws.userId) of the close handler
CloseDelete(cl, c) ==
    [u \in Users |-> IF u = userId[c] THEN NoConn ELSE cl[u]]

\* the codes with which the 'close' event of socket c can fire: 1006 when the
\* socket was destroyed or the transport dropped, the code of the eviction's
\* close frame when the server started the handshake, and otherwise what the
\* peer's close frame carried (1000: disconnect(), 1005: close() without code)
CloseCodes(c) ==
    IF c \in terminated \/ c \in broken THEN {"1006"}
    ELSE IF readyState[c] = "CLOSING" THEN {EvictionCloseCode, "1006"}
    ELSE {"1000", "1005", "1006"}

\* if (ws.userId): the close handler acts for a bound socket, whatever the code
HandlesCloseAbnormalOnly(c, code) == userId[c] # NoUser /\ code # "1000"
HandlesClose(c, code) == userId[c] # NoUser

\* ws.on('close'), up to its await: the socket is CLOSED and leaves
\* wss.clients; if it is bound to a user the registry entry of that user is
\* deleted and the handler suspends at storage.setUserOnline(ws.userId, false)
CloseEvent(c, code) ==
    /\ readyState[c] \in {"OPEN", "CLOSING"}
    /\ code \in CloseCodes(c)
    /\ IF HandlesClose(c, code)
       THEN /\ BagCardinality(pending) < MaxPending
            /\ Effect([readyState EXCEPT ![c] = "CLOSED"], userId, isAlive, terminated,
                      CloseDelete(clients, c),
                      Suspend(pending,
                          [kind |-> "close", conn |-> c, user |-> userId[c],
                           value |-> FALSE, phase |-> "issued", row |-> NoRow,
                           redundant |-> clients[userId[c]] = NoConn]))
            /\ lastOp' = [type |-> "close", conn |-> c, user |-> userId[c],
                          registered |-> clients[userId[c]],
                          byMonitor |-> c \in terminated, code |-> code]
       ELSE /\ Effect([readyState EXCEPT ![c] = "CLOSED"], userId, isAlive, terminated,
                      clients, pending)
            /\ lastOp' = [type |-> "closeUnbound", conn |-> c, user |-> userId[c]]
    /\ sent' = <<>>
    /\ UNCHANGED <<page, users, issued, store, online, messages, now>>

\* the setInterval callback of pingInterval: every tracked socket whose
\* isAlive is false is terminated, every other one is marked and pinged
TickTerminatesAll == wssClients
TickTerminates == {c \in wssClients : isAlive[c] = FALSE}
TickProbes == wssClients \ TickTerminates
PingsEveryTracked ==
    LET open == SelectSeq([i \in 1..NConns |-> i],
                          LAMBDA c : c \in wssClients /\ readyState[c] = "OPEN")
    IN  [i \in 1..Len(open) |-> [to |-> open[i], ev |-> [type |-> "ping"]]]
Pings ==
    LET open == SelectSeq([i \in 1..NConns |-> i],
                          LAMBDA c : c \in TickProbes /\ readyState[c] = "OPEN")
    IN  [i \in 1..Len(open) |-> [to |-> open[i], ev |-> [type |-> "ping"]]]
Tick ==
    /\ wssClients # {}
    /\ terminated' = terminated \cup TickTerminates
    /\ readyState' = [c \in Conns |->
                        IF c \in TickTerminates THEN "CLOSING" ELSE readyState[c]]
    /\ isAlive' = [c \in Conns |-> IF c \in TickProbes THEN FALSE ELSE isAlive[c]]
    /\ ponged' = {}
    /\ lastOp' = [type |-> "tick", terminates |-> TickTerminates, probed |-> TickProbes,
                  acked |-> ponged]
    /\ sent' = Pings
    /\ UNCHANGED <<page, users, issued, store, userId, clients, online, messages, now, broken, pending>>

\* DbStorage.setUserOnline: the UPDATE of an awaited call reaches the row.
\* Calls awaited by different handlers run on the connection pool and are
\* applied in any order.
setUserOnline(on, id, value) == [on EXCEPT ![id] = value]

DbApply(h) ==
    /\ h \in BagToSet(pending)
    /\ h.phase = "issued"
    /\ h.kind \in {"auth", "close"}
    /\ online' = setUserOnline(online, h.user, h.value)
    /\ pending' = Suspend(Settle(pending, h), [h EXCEPT !.phase = "applied"])
    /\ lastOp' = [type |-> "dbApply", kind |-> h.kind]
    /\ sent' = <<>>
    /\ UNCHANGED <<page, users, issued, store, ponged, broken, readyState, userId, isAlive, terminated, clients, messages, now>>

\* the continuation of the auth handler after its await:
\* broadcastUserStatus(ws.userId, true), with ws.userId read now; an exception
\* of the broadcast would reach the handler's catch block
ResumeAuth(h) ==
    /\ h \in BagToSet(pending)
    /\ h.phase = "applied"
    /\ h.kind = "auth"
    /\ sent' = broadcastUserStatus(userId[h.conn], TRUE)
                \o (IF BroadcastAborts THEN SendError(h.conn) ELSE <<>>)
    /\ lastOp' = [type |-> "authResume", conn |-> h.conn, user |-> h.user,
                  value |-> TRUE, redundant |-> h.redundant,
                  aborted |-> BroadcastAborts]
    /\ Effect(readyState, userId, isAlive, terminated, clients, Settle(pending, h))
    /\ UNCHANGED <<page, users, issued, store, online, messages, now>>

\* the continuation of the close handler after its await:
\* broadcastUserStatus(ws.userId, false); nothing catches an exception of the
\* broadcast here
ResumeClose(h) ==
    /\ h \in BagToSet(pending)
    /\ h.phase = "applied"
    /\ h.kind = "close"
    /\ sent' = broadcastUserStatus(userId[h.conn], FALSE)
    /\ lastOp' = [type |-> "closeResume", conn |-> h.conn, user |-> h.user,
                  value |-> FALSE, redundant |-> h.redundant,
                  aborted |-> BroadcastAborts]
    /\ Effect(readyState, userId, isAlive, terminated, clients, Settle(pending, h))
    /\ UNCHANGED <<page, users, issued, store, online, messages, now>>

\* req.body.mediaUrl || null
MediaUrlOrNull(m) == IF m = "" THEN NULL ELSE m
\* String.prototype.trim() on the contents the requests try
Trim(s) == IF s \in {"", " "} THEN "" ELSE s

\* the validation of app.post('/api/messages'): the status it answers with
\* before anything is stored (200: the request goes on to createMessage)
Validate(senderId, receiverId, content, mediaUrl) ==
    IF Trim(content) = "" /\ MediaUrlOrNull(mediaUrl) = NULL THEN 400
    ELSE IF senderId = receiverId THEN 400
    ELSE 200

\* DbStorage.createMessage: its own check, made before the INSERT
createMessageThrows(messageData) == messageData.senderId = messageData.receiverId

\* the status app.post('/api/messages') answers with when it does not reach
\* the INSERT (200: it does): a failed validation returns 400, an exception of
\* createMessage is caught and answered with 400
PostStatusContentOnly(senderId, receiverId, content, mediaUrl) ==
    IF Trim(content) = "" /\ MediaUrlOrNull(mediaUrl) = NULL THEN 400 ELSE 200
PostStatus(senderId, receiverId, content, mediaUrl) ==
    IF Validate(senderId, receiverId, content, mediaUrl) = 400 THEN 400
    ELSE IF createMessageThrows([senderId |-> senderId, receiverId |-> receiverId])
         THEN 400
    ELSE 200

\* app.post('/api/messages') up to its await: validation, then
\* storage.createMessage(messageData) is called and the handler suspends
PostMessage(senderId, receiverId, content, mediaUrl, max) ==
    /\ IF PostStatus(senderId, receiverId, content, mediaUrl) = 200
       THEN /\ BagCardinality(pending) < MaxPending
            /\ Len(messages) + Cardinality({h \in BagToSet(pending) :
                   h.kind = "post" /\ h.phase = "issued"}) < max
            /\ pending' = Suspend(pending,
                   [kind |-> "post", conn |-> NoConn, user |-> senderId, value |-> FALSE,
                    phase |-> "issued", redundant |-> FALSE,
                    row |-> [id |-> 0, senderId |-> senderId, receiverId |-> receiverId,
                             content |-> content, mediaUrl |-> MediaUrlOrNull(mediaUrl),
                             createdAt |-> now, deleted |-> FALSE]])
            /\ lastOp' = [type |-> "post", status |-> 200, senderId |-> senderId,
                          receiverId |-> receiverId, content |-> content,
                          mediaUrl |-> mediaUrl]
       ELSE /\ pending' = pending
            /\ lastOp' = [type |-> "post", status |-> 400, senderId |-> senderId,
                          receiverId |-> receiverId, content |-> content,
                          mediaUrl |-> mediaUrl]
    /\ sent' = <<>>
    /\ UNCHANGED <<page, users, issued, store, ponged, broken, readyState, userId, isAlive, terminated, clients, online, messages,
                   now>>

\* serial("id"): the id the INSERT gives the row (no row is ever removed from
\* the table, so the sequence is one ahead of the number of rows)
NextSerialReused(msgs) == IF Len(msgs) = 0 THEN 1 ELSE Len(msgs)
NextSerial(msgs) == Len(msgs) + 1

\* DbStorage.createMessage: the INSERT reaches the table; the serial id is
\* the next one and the row is what .returning() gives back
DbInsertDropsRow(h) ==
    /\ h \in BagToSet(pending)
    /\ h.phase = "issued"
    /\ h.kind = "post"
    /\ LET row == [h.row EXCEPT !.id = NextSerial(messages)]
       IN  /\ messages' = messages
           /\ pending' = Suspend(Settle(pending, h),
                                 [h EXCEPT !.phase = "applied", !.row = row])
    /\ lastOp' = [type |-> "dbApply", kind |-> "post"]
    /\ sent' = <<>>
    /\ UNCHANGED <<page, users, issued, store, ponged, broken, readyState, userId, isAlive, terminated, clients, online, now>>
DbInsert(h) ==
    /\ h \in BagToSet(pending)
    /\ h.phase = "issued"
    /\ h.kind = "post"
    /\ LET row == [h.row EXCEPT !.id = NextSerial(messages)]
       IN  /\ messages' = Append(messages, row)
           /\ pending' = Suspend(Settle(pending, h),
                                 [h EXCEPT !.phase = "applied", !.row = row])
    /\ lastOp' = [type |-> "dbApply", kind |-> "post"]
    /\ sent' = <<>>
    /\ UNCHANGED <<page, users, issued, store, ponged, broken, readyState, userId, isAlive, terminated, clients, online, now>>

\* the relay block of app.post('/api/messages'): the frames sent for `message`
IsOpen(c) == c # NoConn /\ readyState[c] = "OPEN"
\* the echo to the sender: {...message, senderId, receiverId}
SenderPayload(message) ==
    [message EXCEPT !.senderId = message.senderId, !.receiverId = message.receiverId]
RelayAnyState(message) ==
    IF clients[message.receiverId] # NoConn
    THEN <<[to |-> clients[message.receiverId], ev |-> NewMessage(message)]>>
    ELSE <<>>
RelayReceiverOnly(message) ==
    IF IsOpen(clients[message.receiverId])
    THEN <<[to |-> clients[message.receiverId], ev |-> NewMessage(message)]>>
    ELSE <<>>
Relay(message) ==
    IF IsOpen(clients[message.receiverId])
    THEN <<[to |-> clients[message.receiverId], ev |-> NewMessage(message)]>>
         \o (IF IsOpen(clients[message.senderId])
             THEN <<[to |-> clients[message.senderId],
                     ev |-> NewMessage(SenderPayload(message))]>>
             ELSE <<>>)
    ELSE <<>>

\* the continuation of app.post('/api/messages') after its await: the relay
\* block, then res.json(message)
ResumePost(h) ==
    /\ h \in BagToSet(pending)
    /\ h.phase = "applied"
    /\ h.kind = "post"
    /\ sent' = Relay(h.row)
    /\ lastOp' = [type |-> "postResume", status |-> 200, message |-> h.row]
    /\ pending' = Settle(pending, h)
    /\ UNCHANGED <<page, users, issued, store, ponged, broken, readyState, userId, isAlive, terminated, clients, online, messages,
                   now>>

\* DbStorage.getMessage: the row with this id (NoRow: undefined)
getMessage(msgs, id) ==
    IF \E i \in 1..Len(msgs) : msgs[i].id = id
    THEN msgs[CHOOSE i \in 1..Len(msgs) : msgs[i].id = id]
    ELSE NoRow

\* ORDER BY created_at ASC (rows of equal created_at keep their table order)
RECURSIVE SortByCreatedAt(_)
SortByCreatedAt(rows) ==
    IF rows = <<>> THEN <<>>
    ELSE LET first == CHOOSE i \in 1..Len(rows) :
                          /\ \A j \in 1..Len(rows) : rows[i].createdAt <= rows[j].createdAt
                          /\ \A j \in 1..(i - 1) : rows[j].createdAt > rows[i].createdAt
         IN  <<rows[first]>> \o
             SortByCreatedAt(SubSeq(rows, 1, first - 1) \o SubSeq(rows, first + 1, Len(rows)))

\* DbStorage.getMessagesBetweenUsers: the rows exchanged by the two users, in
\* either direction, deleted ones included
getMessagesOneWay(msgs, user1Id, user2Id) ==
    SortByCreatedAt(SelectSeq(msgs, LAMBDA m :
        m.senderId = user1Id /\ m.receiverId = user2Id))
getMessagesBetweenUsers(msgs, user1Id, user2Id) ==
    SortByCreatedAt(SelectSeq(msgs, LAMBDA m :
        \/ m.senderId = user1Id /\ m.receiverId = user2Id
        \/ m.senderId = user2Id /\ m.receiverId = user1Id))

\* DbStorage.editMessage: UPDATE messages SET content WHERE id
editMessage(msgs, id, content) ==
    [i \in 1..Len(msgs) |->
        IF msgs[i].id = id THEN [msgs[i] EXCEPT !.content = content] ELSE msgs[i]]

\* DbStorage.deleteMessage: UPDATE messages SET deleted = true WHERE id
deleteMessageClearsContent(msgs, id) ==
    [i \in 1..Len(msgs) |->
        IF msgs[i].id = id THEN [msgs[i] EXCEPT !.deleted = TRUE, !.content = ""]
        ELSE msgs[i]]
deleteMessage(msgs, id) ==
    [i \in 1..Len(msgs) |->
        IF msgs[i].id = id THEN [msgs[i] EXCEPT !.deleted = TRUE] ELSE msgs[i]]

\* req.params.id and req.body.content values tried by the PATCH requests
\* (one id more than the table can hold: an id of no row)
MessageIds == 1..(MaxStored + 1)
EditContents == {"hi", ""}

\* app.patch('/api/messages/:id/edit'): the handler's one effect is its UPDATE
PatchEdit(id, content) ==
    /\ messages' = editMessage(messages, id, content)
    /\ lastOp' = [type |-> "edit", id |-> id, content |-> content,
                  before |-> getMessage(messages, id)]
    /\ sent' = <<>>
    /\ UNCHANGED <<page, users, issued, store, readyState, userId, isAlive, terminated, clients, online, now, ponged,
                   broken, pending>>

\* app.patch('/api/messages/:id/delete'): the handler's one effect is its UPDATE
PatchDelete(id) ==
    /\ messages' = deleteMessage(messages, id)
    /\ lastOp' = [type |-> "delete", id |-> id, before |-> getMessage(messages, id)]
    /\ sent' = <<>>
    /\ UNCHANGED <<page, users, issued, store, readyState, userId, isAlive, terminated, clients, online, now, ponged,
                   broken, pending>>

MessageEdits ==
    \/ \E id \in MessageIds, content \in EditContents : PatchEdit(id, content)
    \/ \E id \in MessageIds : PatchDelete(id)

PostRequests(contents, mediaUrls, max) ==
    \E a, b \in Users, content \in contents, mediaUrl \in mediaUrls :
        PostMessage(a, b, content, mediaUrl, max)

Messaging ==
    \/ PostRequests(Contents, MediaUrls, MaxStored)
    \/ \E h \in BagToSet(pending) : DbInsert(h)
    \/ \E h \in BagToSet(pending) : ResumePost(h)

\* ------------------------------------------------------------- the client
maxRetries == 5

\* the server-side variables, which a callback of the browser leaves alone
server == <<readyState, userId, isAlive, terminated, clients, online, messages, now,
            ponged, broken, pending, lastOp, sent, users, issued>>

\* reconnect(retryCount): gives up at maxRetries, else creates a WebSocket
reconnect(st, retryCount) ==
    IF retryCount >= maxRetries
    THEN [st EXCEPT !.phase = "gaveUp"]
    ELSE [st EXCEPT !.phase = "connecting", !.retryCount = retryCount]

\* connect(userId) of a tab that has no socket and is not connecting
connect(t, u) ==
    /\ store[t].phase = "idle"
    /\ store' = [store EXCEPT ![t] = reconnect([store[t] EXCEPT !.userId = u], 0)]
    /\ UNCHANGED <<server, page>>

\* a server-side socket that no tab's WebSocket is paired with yet
Fresh(c) ==
    /\ readyState[c] = "OPEN"
    /\ userId[c] = NoUser
    /\ \A t \in Tabs : store[t].socket # c

\* ws.onopen: the store holds the socket and the auth frame is sent (it is in
\* flight until the server-side socket is bound)
onopen(t) ==
    /\ store[t].phase = "connecting"
    /\ \E c \in Conns :
           /\ Fresh(c)
           /\ store' = [store EXCEPT ![t].socket = c, ![t].phase = "open"]
    /\ UNCHANGED <<server, page>>

\* if (event.code !== 1000): every close but the normal one schedules
\* reconnect(retryCount + 1)
Reconnects(code) == code # "1000"

\* ws.onclose for a close the server started: the close frame of
\* existingConnection.close() reaches the tab
onclose(t) ==
    /\ store[t].phase = "open"
    /\ readyState[store[t].socket] = "CLOSING"
    /\ store[t].socket \notin terminated
    /\ store' = [store EXCEPT ![t].socket = NoConn,
                              ![t].evicted = TRUE,
                              ![t].phase = IF Reconnects(EvictionCloseCode)
                                           THEN "waiting" ELSE "closed"]
    /\ UNCHANGED <<server, page>>

\* the setTimeout callback of onclose: reconnect(retryCount + 1); the delay
\* Math.min(baseDelay * 2^retryCount, 10000) only postpones it
Timer(t) ==
    /\ store[t].phase = "waiting"
    /\ store' = [store EXCEPT ![t] = reconnect(store[t], store[t].retryCount + 1)]
    /\ UNCHANGED <<server, page>>

\* disconnect(): socket.close(1000, 'Intentional disconnect') on the tab's
\* authenticated socket; its onclose then sees the code 1000 and does nothing
\* while the store holds no socket (the WebSocket has not opened yet, or the
\* tab waits for its reconnect timer) disconnect() does nothing: if (socket)
disconnect(t) ==
    /\ ~store[t].loggedOut
    /\ IF store[t].socket # NoConn
       THEN /\ store[t].phase = "open"
            /\ readyState[store[t].socket] = "OPEN"
            /\ userId[store[t].socket] # NoUser
            /\ store' = [store EXCEPT ![t].socket = NoConn, ![t].phase = "disconnected",
                                      ![t].loggedOut = TRUE]
       ELSE /\ store[t].phase \in {"connecting", "waiting"}
            /\ store' = [store EXCEPT ![t].loggedOut = TRUE]
    /\ UNCHANGED <<server, page>>

\* a socket whose tab has let go of it: the server's 'close' event follows
Released(c) ==
    /\ readyState[c] \in {"OPEN", "CLOSING"}
    /\ userId[c] # NoUser
    /\ \A t \in Tabs : store[t].socket # c

\* the tabs and the server events they cause: the handshake of a WebSocket a
\* tab created, the auth frame a tab sent, the close handshake of a socket a
\* tab closed or saw closed
Sessions ==
    \/ \E t \in Tabs, u \in Users : connect(t, u)
    \/ \E t \in Tabs : onopen(t)
    \/ \E t \in Tabs : onclose(t)
    \/ \E t \in Tabs : Timer(t)
    \/ \E t \in Tabs : disconnect(t)
    \/ \E c \in Conns :
           /\ Cardinality({t \in Tabs : store[t].phase = "connecting"})
                  > Cardinality({d \in Conns : Fresh(d)})
           /\ Connection(c)
    \/ \E t \in Tabs :
           /\ store[t].phase = "open"
           /\ userId[store[t].socket] = NoUser
           /\ MessageAuth(store[t].socket, store[t].userId)
    \/ \E c \in Conns :
           /\ Released(c)
           /\ CloseEvent(c, IF readyState[c] = "CLOSING" THEN EvictionCloseCode ELSE "1000")
    \/ \E h \in BagToSet(pending) : DbApply(h)
    \/ \E h \in BagToSet(pending) : ResumeAuth(h)
    \/ \E h \in BagToSet(pending) : ResumeClose(h)

Presence ==
    \/ \E c \in Conns : Connection(c)
    \/ \E c \in Conns, u \in Users \cup {NoUser} : MessageAuth(c, u)
    \/ \E c \in Conns, code \in {"1000", "1005", "1006"} : CloseEvent(c, code)
    \/ \E h \in BagToSet(pending) : DbApply(h)
    \/ \E h \in BagToSet(pending) : ResumeAuth(h)
    \/ \E h \in BagToSet(pending) : ResumeClose(h)

Liveness ==
    \/ \E c \in Conns : Pong(c)
    \/ Tick

\* the relay is exercised with one text payload: the payload does not reach
\* the relay block's conditions
RelayMessaging ==
    \/ PostRequests({"hello"}, {""}, MaxMessages)
    \/ \E h \in BagToSet(pending) : DbInsert(h)
    \/ \E h \in BagToSet(pending) : ResumePost(h)

\* the registry and the presence tracker
Spec == Init /\ [][Presence]_vars
\* the registry, the presence tracker and the liveness monitor
SpecLiveness == Init /\ [][Presence \/ Liveness]_vars
\* the registry, the presence tracker and the monitor over sockets that
\* answer no probe
SpecMonitor == Init /\ [][Presence \/ Tick]_vars
\* the registry, the presence tracker and the message relay
SpecRelay == Init /\ [][Presence \/ RelayMessaging]_vars

\* the registry, the presence tracker, the typing relay and malformed frames
SpecTyping == Init /\ [][Presence \/ TypingFrames \/ MalformedFrames]_vars

TransportFailures == \E c \in Conns : TransportFailure(c)

\* sockets that connect and close without authenticating
Sockets ==
    \/ \E c \in Conns : Connection(c)
    \/ \E c \in Conns, code \in {"1000", "1005", "1006"} : CloseEvent(c, code)

\* the liveness monitor alone: sockets, their transports, the probes and the
\* answers to them
SpecProbe == Init /\ [][Sockets \/ Liveness \/ TransportFailures]_vars

\* the registry and the presence tracker over transports that can fail
SpecBroadcast == Init /\ [][Presence \/ TransportFailures]_vars

\* browser tabs that connect, authenticate, reconnect and disconnect, and the
\* server's registry and presence tracker behind them
SpecSessions == Init /\ [][Sessions]_vars

\* ------------------------------------------------------------- the page
\* one browser page: the zustand store (socket, isConnecting), every
\* WebSocket a reconnect created (readyState, the retryCount of its closure,
\* the connect() call it belongs to, the code its close() was given, whether
\* it has opened) and the armed setTimeout callbacks
NoSocket == 0
baseDelay == 1000
maxDelay == 10000

Min(a, b) == IF a <= b THEN a ELSE b
\* Math.min(baseDelay * Math.pow(2, retryCount), 10000)
Delay(retryCount) == Min(baseDelay * 2 ^ retryCount, maxDelay)

\* reconnect(retryCount) of the connect() call `call`: gives up at
\* maxRetries and clears isConnecting, else creates a WebSocket
ReconnectForever(pg, retryCount, call) ==
    [pg EXCEPT !.ws = Append(@, [readyState |-> "CONNECTING", retryCount |-> retryCount,
                                 call |-> call, closeArg |-> "none",
                                 opened |-> FALSE])]
Reconnect(pg, retryCount, call) ==
    IF retryCount >= maxRetries
    THEN [pg EXCEPT !.isConnecting = FALSE]
    ELSE [pg EXCEPT !.ws = Append(@, [readyState |-> "CONNECTING",
                                      retryCount |-> retryCount, call |-> call,
                                      closeArg |-> "none", opened |-> FALSE])]

\* socket.close(code) of the browser: an OPEN or CONNECTING socket starts
\* closing, a closing or closed one is left as it is
Close(ws, k, code) ==
    IF ws[k].readyState \in {"CONNECTING", "OPEN"}
    THEN [ws EXCEPT ![k].readyState = "CLOSING", ![k].closeArg = code]
    ELSE ws

\* connect(userId): nothing while isConnecting; else the store's socket is
\* closed without a code, isConnecting is set and reconnect() runs
Connect ==
    /\ page.calls < MaxCalls
    /\ Len(page.ws) < MaxSockets
    /\ page' = IF page.isConnecting
               THEN [page EXCEPT !.calls = @ + 1]
               ELSE Reconnect([page EXCEPT
                                  !.calls = @ + 1,
                                  !.isConnecting = TRUE,
                                  !.ws = IF page.socket # NoSocket
                                         THEN Close(@, page.socket, "none")
                                         ELSE @],
                              0, page.calls + 1)
    /\ UNCHANGED <<server, store>>

\* ws.onopen: set({ socket: ws, isConnecting: false }) (the auth frame goes
\* to the server)
OnOpen(k) ==
    /\ page.ws[k].readyState = "CONNECTING"
    /\ page' = [page EXCEPT !.ws[k].readyState = "OPEN", !.ws[k].opened = TRUE,
                            !.socket = k, !.isConnecting = FALSE]
    /\ UNCHANGED <<server, store>>

\* event.code of the close event a socket can get: 1006 when the connection
\* fails or is lost, the code of the peer's close frame (1005: none) when the
\* peer closes, the code given to close() (1005: none) when the page closed it
PageCloseCodes(w) ==
    CASE w.readyState = "CONNECTING" -> {"1006"}
      [] w.readyState = "OPEN" -> {"1000", "1005", "1006"}
      [] w.readyState = "CLOSING" ->
             {IF w.closeArg = "none" THEN "1005" ELSE w.closeArg, "1006"}
      [] OTHER -> {}

\* ws.onclose: set({ socket: null }); every code but 1000 arms the timer of
\* reconnect(retryCount + 1), the code 1000 clears isConnecting
OnClose(k, code) ==
    /\ code \in PageCloseCodes(page.ws[k])
    /\ page' = IF Reconnects(code)
               THEN [page EXCEPT !.ws[k].readyState = "CLOSED", !.socket = NoSocket,
                                 !.timers = @ \cup
                                     {[retryCount |-> page.ws[k].retryCount + 1,
                                       delay |-> Delay(page.ws[k].retryCount),
                                       call |-> page.ws[k].call, from |-> k]}]
               ELSE [page EXCEPT !.ws[k].readyState = "CLOSED", !.socket = NoSocket,
                                 !.isConnecting = FALSE]
    /\ UNCHANGED <<server, store>>

\* the setTimeout callback: reconnect(retryCount + 1)
Timeout(tm) ==
    /\ tm \in page.timers
    /\ tm.retryCount < maxRetries => Len(page.ws) < MaxSockets
    /\ page' = Reconnect([page EXCEPT !.timers = @ \ {tm}], tm.retryCount, tm.call)
    /\ UNCHANGED <<server, store>>

\* disconnect(): if (socket) { socket.close(1000, ...); set({ socket: null,
\* isConnecting: false }) }
Disconnect ==
    /\ page' = IF page.socket # NoSocket
               THEN [page EXCEPT !.ws = Close(@, page.socket, "1000"),
                                 !.socket = NoSocket, !.isConnecting = FALSE]
               ELSE page
    /\ UNCHANGED <<server, store>>

Page ==
    \/ Connect
    \/ \E k \in 1..Len(page.ws) : OnOpen(k)
    \/ \E k \in 1..Len(page.ws), code \in {"1000", "1005", "1006"} : OnClose(k, code)
    \/ \E tm \in page.timers : Timeout(tm)
    \/ Disconnect

\* one page, its WebSockets and its timers
SpecPage == Init /\ [][Page]_vars

\* ------------------------------------------------------------- accounts
\* req.body.email and req.body.password values tried by the account routes
Emails == {"a@x.io", "b@x.io"}
Passwords == {"secret", "pw"}
\* the length z.string().min(6) measures
PasswordLength(password) == IF password = "secret" THEN 6 ELSE 2
\* randomBytes(32).toString('hex'): the k-th draw (no two draws are equal)
TokenOf == <<"t1", "t2", "t3">>
\* a token no registration was given
Bogus == "bogus"
\* verificationTokenExpiry of a row that has none (SQL NULL compares greater
\* than no date)
NoExpiry == -1
\* Date.now() + 3600000, in steps of the server clock
TokenTtl == 1
\* the password verifyGoogleToken draws from randomBytes(16)
RandomPassword == "random"

NoUserRow == [id |-> 0, email |-> "", password |-> NULL, emailVerified |-> FALSE,
              verificationToken |-> NULL, verificationTokenExpiry |-> NoExpiry,
              googleId |-> NULL]

\* DbStorage.getUserByEmail: results[0] (NoUserRow: undefined)
getUserByEmail(rows, email) ==
    IF \E i \in 1..Len(rows) : rows[i].email = email
    THEN rows[CHOOSE i \in 1..Len(rows) :
                  /\ rows[i].email = email
                  /\ \A j \in 1..(i - 1) : rows[j].email # email]
    ELSE NoUserRow

\* DbStorage.getVerificationToken: the row with this token whose expiry is
\* after new Date() (NoUserRow: undefined)
getVerificationTokenAnyAge(rows, token, date) ==
    IF \E i \in 1..Len(rows) : rows[i].verificationToken = token
    THEN rows[CHOOSE i \in 1..Len(rows) : rows[i].verificationToken = token]
    ELSE NoUserRow
getVerificationToken(rows, token, date) ==
    IF \E i \in 1..Len(rows) :
           rows[i].verificationToken = token /\ rows[i].verificationTokenExpiry > date
    THEN rows[CHOOSE i \in 1..Len(rows) :
                  /\ rows[i].verificationToken = token
                  /\ rows[i].verificationTokenExpiry > date]
    ELSE NoUserRow

\* email: text("email").notNull().unique(): the INSERT of a row with an email
\* the table holds fails (username, which is the email, and googleId, which
\* stands for one email, are unique as well)
UniqueViolationNever(rows, row) == FALSE
UniqueViolation(rows, row) == \E i \in 1..Len(rows) : rows[i].email = row.email

\* DbStorage.verifyUserEmail: UPDATE users SET email_verified, token, expiry
verifyUserEmail(rows, id) ==
    [i \in 1..Len(rows) |->
        IF rows[i].id = id
        THEN [rows[i] EXCEPT !.emailVerified = TRUE, !.verificationToken = NULL,
                             !.verificationTokenExpiry = NoExpiry]
        ELSE rows[i]]

\* DbStorage.clearVerificationToken: UPDATE users SET token, expiry
clearVerificationTokenOnly(rows, id) ==
    [i \in 1..Len(rows) |->
        IF rows[i].id = id THEN [rows[i] EXCEPT !.verificationToken = NULL] ELSE rows[i]]
clearVerificationToken(rows, id) ==
    [i \in 1..Len(rows) |->
        IF rows[i].id = id
        THEN [rows[i] EXCEPT !.verificationToken = NULL,
                             !.verificationTokenExpiry = NoExpiry]
        ELSE rows[i]]

\* DbStorage.updateVerificationToken: UPDATE users SET token, expiry
updateVerificationToken(rows, id, token, expiry) ==
    [i \in 1..Len(rows) |->
        IF rows[i].id = id
        THEN [rows[i] EXCEPT !.verificationToken = token,
                             !.verificationTokenExpiry = expiry]
        ELSE rows[i]]

\* the part of the server state the account routes leave alone
rest == <<readyState, userId, isAlive, terminated, clients, online, messages, ponged,
          broken, sent, store, page>>

\* app.post('/api/auth/register') up to its second await: the schema check,
\* the lookup by email, then storage.createUser is called (a token that is
\* dropped with the request is not counted as drawn)
Register(email, password) ==
    /\ IF PasswordLength(password) < 6 \/ getUserByEmail(users, email) # NoUserRow
       THEN /\ lastOp' = [type |-> "register", status |-> 400, email |-> email]
            /\ UNCHANGED <<pending, issued>>
       ELSE /\ BagCardinality(pending) < MaxPending
            /\ issued < MaxTokens
            /\ issued' = issued + 1
            /\ pending' = Suspend(pending,
                   [kind |-> "register", phase |-> "issued",
                    row |-> [id |-> 0, email |-> email, password |-> password,
                             emailVerified |-> FALSE,
                             verificationToken |-> TokenOf[issued + 1],
                             verificationTokenExpiry |-> now + TokenTtl,
                             googleId |-> NULL]])
            /\ lastOp' = [type |-> "register", status |-> 0, email |-> email]
    /\ UNCHANGED <<users, now, rest>>

\* verifyGoogleToken after the ticket is verified: find by email, or call
\* storage.createUser with emailVerified true and no token
GoogleSignIn(email) ==
    /\ IF getUserByEmail(users, email) # NoUserRow
       THEN /\ lastOp' = [type |-> "google", status |-> 200,
                          id |-> getUserByEmail(users, email).id]
            /\ UNCHANGED pending
       ELSE /\ BagCardinality(pending) < MaxPending
            /\ pending' = Suspend(pending,
                   [kind |-> "google", phase |-> "issued",
                    row |-> [id |-> 0, email |-> email, password |-> RandomPassword,
                             emailVerified |-> TRUE, verificationToken |-> NULL,
                             verificationTokenExpiry |-> NoExpiry,
                             googleId |-> email]])
            /\ lastOp' = [type |-> "google", status |-> 0, id |-> 0]
    /\ UNCHANGED <<users, issued, now, rest>>

\* DbStorage.createUser: the INSERT reaches the table, and the route that
\* awaited it answers: a unique violation is caught (400 by register, 401 by
\* the Google route), else the row is stored under the next serial id
CreateUser(h) ==
    /\ h \in BagToSet(pending)
    /\ h.kind \in {"register", "google"}
    /\ pending' = Settle(pending, h)
    /\ IF UniqueViolation(users, h.row)
       THEN /\ users' = users
            /\ lastOp' = [type |-> "createUser", kind |-> h.kind, id |-> 0,
                          status |-> IF h.kind = "register" THEN 400 ELSE 401]
       ELSE /\ users' = Append(users, [h.row EXCEPT !.id = Len(users) + 1])
            /\ lastOp' = [type |-> "createUser", kind |-> h.kind, id |-> Len(users) + 1,
                          status |-> 200]
    /\ UNCHANGED <<issued, now, rest>>

\* the tokens a request can carry: the ones drawn so far, and one never drawn
TokenInputs == {TokenOf[k] : k \in 1..issued} \cup {Bogus}

\* app.post('/api/auth/verify-email') up to its second await: the lookup by
\* token, the route's own expiry test, then storage.verifyUserEmail is called
VerifyEmail(token) ==
    /\ LET user == getVerificationToken(users, token, now)
       IN  IF user = NoUserRow
              \/ (user.verificationTokenExpiry # NoExpiry
                  /\ now > user.verificationTokenExpiry)
           THEN /\ lastOp' = [type |-> "verify", status |-> 400, token |-> token, id |-> 0]
                /\ UNCHANGED pending
           ELSE /\ BagCardinality(pending) < MaxPending
                /\ pending' = Suspend(pending,
                       [kind |-> "verify", phase |-> "issued", id |-> user.id,
                        token |-> token])
                /\ lastOp' = [type |-> "verify", status |-> 0, token |-> token,
                              id |-> user.id]
    /\ UNCHANGED <<users, issued, now, rest>>

\* the UPDATE of storage.verifyUserEmail reaches the table; the route goes on
\* to call storage.clearVerificationToken
VerifyUserEmail(h) ==
    /\ h \in BagToSet(pending)
    /\ h.kind = "verify"
    /\ h.phase = "issued"
    /\ users' = verifyUserEmail(users, h.id)
    /\ pending' = Suspend(Settle(pending, h), [h EXCEPT !.phase = "applied"])
    /\ lastOp' = [type |-> "verifyUserEmail", id |-> h.id, token |-> h.token]
    /\ UNCHANGED <<issued, now, rest>>

\* the UPDATE of storage.clearVerificationToken reaches the table and the
\* route answers { success: true }
ClearVerificationToken(h) ==
    /\ h \in BagToSet(pending)
    /\ h.kind = "verify"
    /\ h.phase = "applied"
    /\ users' = clearVerificationToken(users, h.id)
    /\ pending' = Settle(pending, h)
    /\ lastOp' = [type |-> "verifyResume", status |-> 200, id |-> h.id,
                  token |-> h.token]
    /\ UNCHANGED <<issued, now, rest>>

\* app.post('/api/auth/login'): 401 without a user of this email and
\* password, 403 while the email is not verified, else the user's id
LoginStatusUnverified(user, password) ==
    IF user = NoUserRow \/ user.password # password THEN 401 ELSE 200
LoginStatus(user, password) ==
    IF user = NoUserRow \/ user.password # password THEN 401
    ELSE IF ~user.emailVerified THEN 403
    ELSE 200
Login(email, password) ==
    /\ LET user == getUserByEmail(users, email)
       IN  lastOp' = [type |-> "login", status |-> LoginStatus(user, password),
                      email |-> email, password |-> password,
                      id |-> IF LoginStatus(user, password) = 200 THEN user.id ELSE 0]
    /\ UNCHANGED <<users, issued, pending, now, rest>>

\* storage.updateVerificationToken(id, token, expiry) with a newly drawn token
UpdateVerificationToken(id) ==
    /\ issued < MaxTokens
    /\ issued' = issued + 1
    /\ users' = updateVerificationToken(users, id, TokenOf[issued + 1], now + TokenTtl)
    /\ lastOp' = [type |-> "updateToken", id |-> id]
    /\ UNCHANGED <<pending, now, rest>>

\* the server clock moves on
Clock ==
    /\ now < MaxClock
    /\ now' = now + 1
    /\ lastOp' = [type |-> "clock"]
    /\ UNCHANGED <<users, issued, pending, rest>>

Accounts ==
    \/ \E email \in Emails, password \in Passwords : Register(email, password)
    \/ \E email \in Emails : GoogleSignIn(email)
    \/ \E h \in BagToSet(pending) : CreateUser(h)
    \/ \E token \in TokenInputs : VerifyEmail(token)
    \/ \E h \in BagToSet(pending) : VerifyUserEmail(h)
    \/ \E h \in BagToSet(pending) : ClearVerificationToken(h)
    \/ \E email \in Emails, password \in Passwords : Login(email, password)
    \/ \E id \in 1..MaxUsers : UpdateVerificationToken(id)
    \/ Clock

\* the account routes and the users table behind them
SpecAccounts == Init /\ [][Accounts]_vars

\* .orderBy(desc(messages.createdAt)): the rows by falling created_at; SQL
\* leaves the order of rows of equal created_at open, so every such order is
\* a possible result
Orderings(rows) ==
    {[i \in 1..Len(rows) |-> rows[p[i]]] :
        p \in {q \in [1..Len(rows) -> 1..Len(rows)] :
                  \A i, j \in 1..Len(rows) : i # j => q[i] # q[j]}}
OrderByCreatedAtAsc(rows) ==
    {s \in Orderings(rows) :
        \A i \in 1..(Len(s) - 1) : s[i].createdAt <= s[i + 1].createdAt}
OrderByCreatedAtDesc(rows) ==
    {s \in Orderings(rows) :
        \A i \in 1..(Len(s) - 1) : s[i].createdAt >= s[i + 1].createdAt}

\* the forEach of DbStorage.getUserChats over the selected rows: the first
\* row met for a counterpart makes its entry, later ones are skipped; the
\* result is the entries of chatMap in insertion order
RECURSIVE chatMap(_, _, _)
chatMap(userMessages, user, chats) ==
    IF userMessages = <<>> THEN chats
    ELSE LET msg == Head(userMessages)
             otherUserId == IF msg.senderId = user THEN msg.receiverId ELSE msg.senderId
         IN  chatMap(Tail(userMessages), user,
                     IF \E i \in 1..Len(chats) : chats[i].userId = otherUserId
                     THEN chats
                     ELSE Append(chats, [userId |-> otherUserId, lastMessage |-> msg]))

\* DbStorage.getUserChats: the possible results for this user over this table
getUserChats(msgs, user) ==
    {chatMap(userMessages, user, <<>>) :
        userMessages \in OrderByCreatedAtDesc(SelectSeq(msgs, LAMBDA m :
            m.senderId = user \/ m.receiverId = user))}

\* app.get('/api/chats'): answers with the chat summary of the user
GetChats(user) ==
    /\ \E chats \in getUserChats(messages, user) :
           lastOp' = [type |-> "chats", userId |-> user, chats |-> chats]
    /\ sent' = <<>>
    /\ UNCHANGED <<page, users, issued, store, readyState, userId, isAlive, terminated, clients, online, messages,
                   now, ponged, broken, pending>>

\* the tables the creation requests of ChatUsers can leave behind: serial ids
\* in table order, sender and receiver different, any creation instants (the
\* INSERTs of concurrent requests reach the table in any order)
ChatUsers == 1..NChatUsers
ChatRows ==
    {r \in [senderId : ChatUsers, receiverId : ChatUsers, createdAt : 0..MaxTime] :
        r.senderId # r.receiverId}
Tables ==
    UNION {{[i \in 1..n |->
                [id |-> i, senderId |-> f[i].senderId, receiverId |-> f[i].receiverId,
                 content |-> "hello", mediaUrl |-> NULL, createdAt |-> f[i].createdAt,
                 deleted |-> FALSE]] : f \in [1..n -> ChatRows]} : n \in 0..MaxRows}
InitChats ==
    /\ messages \in Tables
    /\ readyState = [c \in Conns |-> "NONE"]
    /\ userId = [c \in Conns |-> NoUser]
    /\ isAlive = [c \in Conns |-> FALSE]
    /\ terminated = {}
    /\ clients = [u \in Users |-> NoConn]
    /\ online = [u \in Users |-> FALSE]
    /\ now = 0
    /\ users = <<>>
    /\ issued = 0
    /\ page = [socket |-> 0, isConnecting |-> FALSE, ws |-> <<>>, timers |-> {},
               calls |-> 0]
    /\ ponged = {}
    /\ broken = {}
    /\ pending = EmptyBag
    /\ lastOp = [type |-> "init"]
    /\ sent = <<>>
    /\ store = [t \in Tabs |-> [phase |-> "idle", userId |-> NoUser, socket |-> NoConn,
                                retryCount |-> 0, evicted |-> FALSE,
                                loggedOut |-> FALSE]]

\* the chat summary over the tables the message store can hold
SpecChats == InitChats /\ [][\E user \in ChatUsers : GetChats(user)]_vars

\* app.get('/api/messages/:userId'): 400 when the two ids are equal, else the
\* conversation of the two users
GetMessages(currentUserId, otherUserId) ==
    /\ lastOp' = IF currentUserId = otherUserId
                 THEN [type |-> "messages", status |-> 400,
                       currentUserId |-> currentUserId, otherUserId |-> otherUserId,
                       messages |-> <<>>]
                 ELSE [type |-> "messages", status |-> 200,
                       currentUserId |-> currentUserId, otherUserId |-> otherUserId,
                       messages |-> getMessagesBetweenUsers(messages, currentUserId,
                                                            otherUserId)]
    /\ sent' = <<>>
    /\ UNCHANGED <<page, users, issued, store, readyState, userId, isAlive, terminated, clients, online, messages,
                   now, ponged, broken, pending>>

\* the conversation fetch over the tables the message store can hold, with
\* rows being soft-deleted
SpecConversation ==
    InitChats /\ [][\/ \E a, b \in ChatUsers : GetMessages(a, b)
                    \/ \E id \in MessageIds : PatchDelete(id)]_vars

\* the message store behind the HTTP API
SpecStore == Init /\ [][Messaging \/ MessageEdits]_vars

\* sockets of which the first NHosts authenticate and the others never do,
\* with the typing relay and the liveness monitor
Hosts == 1..NHosts
Guests ==
    \/ \E c \in Conns : Connection(c)
    \/ \E c \in Hosts, u \in Users \cup {NoUser} : MessageAuth(c, u)
    \/ \E c \in Conns, code \in {"1000", "1005", "1006"} : CloseEvent(c, code)
    \/ \E h \in BagToSet(pending) : DbApply(h)
    \/ \E h \in BagToSet(pending) : ResumeAuth(h)
    \/ \E h \in BagToSet(pending) : ResumeClose(h)
    \/ TypingFrames
    \/ Tick
SpecGuests == Init /\ [][Guests]_vars

\* every step the program takes
Next ==
    \/ Presence \/ Liveness \/ Messaging \/ MessageEdits \/ TypingFrames
    \/ MalformedFrames \/ \E c \in Conns : TransportFailure(c)
    \/ Sessions \/ Accounts \/ Page
    \/ \E a, b \in ChatUsers : GetMessages(a, b)
    \/ \E user \in ChatUsers : GetChats(user)

\* ---------------------------------------------------------------- claims
Quiescent == \A h \in BagToSet(pending) : h.kind \notin {"auth", "close"}
Registered(c) == \E u \in Users : clients[u] = c
\* the number of frames of `sent` that give connection c the event ev
Frames(c, ev) == Cardinality({i \in 1..Len(sent) : sent[i].to = c /\ sent[i].ev = ev})

\* C1: after c1 authenticates as u and then c2 authenticates as u, the
\* registry holds c2 for u and c1 is closed: once c2's auth has run, no other
\* socket bound to u is still open.
C1_AtMostOneConnection ==
    lastOp.type = "auth" =>
        /\ clients[lastOp.user] = lastOp.conn
        /\ \A c \in Conns \ {lastOp.conn} :
               userId[c] = lastOp.user => readyState[c] # "OPEN"

\* C2: the close handler of a replaced connection leaves the newer registry
\* entry in place: if the registry held another connection for the user when
\* the close handler ran, it still holds it afterwards.
C2_StaleRemovalGuard ==
    (lastOp.type = "close" /\ lastOp.registered \notin {NoConn, lastOp.conn}) =>
        clients[lastOp.user] = lastOp.registered

\* C3: in every quiescent state the persisted online flag of every user is
\* true exactly when the registry holds an entry for the user.
C3_OnlineMatchesRegistry ==
    Quiescent => \A u \in Users : online[u] <=> (clients[u] # NoConn)

\* C4: the broadcast of a registration of U gives every other connection that
\* is registered and open exactly one userStatus{U, online: true} frame.
C4_OnlineBroadcast ==
    lastOp.type = "authResume" =>
        \A c \in Conns \ {lastOp.conn} :
            (Registered(c) /\ readyState[c] = "OPEN") =>
                Frames(c, UserStatus(lastOp.user, TRUE)) = 1

\* C5: the broadcast of a removal of U gives every connection that is still
\* registered and open exactly one userStatus{U, online: false} frame, and
\* such a frame is sent only if the close handler removed U's registry entry.
C5_OfflineBroadcast ==
    lastOp.type = "closeResume" =>
        /\ \A c \in Conns :
               (Registered(c) /\ readyState[c] = "OPEN") =>
                   Frames(c, UserStatus(lastOp.user, FALSE)) = 1
        /\ (\E i \in 1..Len(sent) : sent[i].ev = UserStatus(lastOp.user, FALSE)) =>
               ~lastOp.redundant

\* C6: a registration of U made while U was already registered and already
\* persisted online changes nothing and broadcasts no userStatus{U, online: true}.
C6_IdempotentBroadcast ==
    (lastOp.type = "authResume" /\ lastOp.redundant) =>
        \A i \in 1..Len(sent) : sent[i].ev # UserStatus(lastOp.user, TRUE)

\* C7: every userStatus frame a handler broadcasts carries the user and the
\* value of the setUserOnline write that this handler awaited (the write is
\* complete when the continuation runs).
C7_WriteBeforeBroadcast ==
    lastOp.type \in {"authResume", "closeResume"} =>
        \A i \in 1..Len(sent) : sent[i].ev = UserStatus(lastOp.user, lastOp.value)

\* C8: when the relay runs for a message from A to B while both have an open
\* registered connection, it sends one newMessage frame to B's connection and
\* one to A's, and both carry the stored message.
BothConnected ==
    /\ lastOp.type = "postResume"
    /\ IsOpen(clients[lastOp.message.senderId])
    /\ IsOpen(clients[lastOp.message.receiverId])
C8_RelayBoth ==
    BothConnected =>
        /\ sent = <<[to |-> clients[lastOp.message.receiverId],
                     ev |-> NewMessage(lastOp.message)],
                    [to |-> clients[lastOp.message.senderId],
                     ev |-> NewMessage(lastOp.message)]>>
        /\ lastOp.message = messages[lastOp.message.id]
        /\ lastOp.status = 200
C8_Witness ==
    /\ BothConnected
    /\ clients[lastOp.message.senderId] # clients[lastOp.message.receiverId]
    /\ Len(sent) = 2

\* C9: when the relay runs while exactly one of the two parties has an open
\* registered connection, that connection gets the newMessage frame, nothing
\* else is sent and the request succeeds.
C9_RelayOne ==
    lastOp.type = "postResume" =>
        \A party \in {lastOp.message.senderId, lastOp.message.receiverId} :
            LET other == IF party = lastOp.message.senderId
                         THEN lastOp.message.receiverId
                         ELSE lastOp.message.senderId
            IN  (IsOpen(clients[party]) /\ ~IsOpen(clients[other])) =>
                    /\ sent = <<[to |-> clients[party],
                                 ev |-> NewMessage(lastOp.message)]>>
                    /\ lastOp.status = 200

\* C10: a registered connection that does not answer goes to PENDING at one
\* tick, is terminated at the next, and once its close handler has run no
\* registry entry refers to it.
C10_LivenessEviction ==
    /\ lastOp.type = "tick" =>
           /\ \A c \in lastOp.probed : isAlive[c] = FALSE /\ c \notin terminated
           /\ \A c \in lastOp.terminates : c \in terminated /\ readyState[c] # "OPEN"
    /\ \A c \in terminated : readyState[c] = "CLOSED" => ~Registered(c)

\* C11: a tick terminates no socket whose 'pong' handler ran since the
\* previous tick: every pong leaves the socket ALIVE (isAlive true), and every
\* socket that answered since the previous tick is probed again, not terminated.
C11_TwoStrike ==
    /\ \A c \in ponged : isAlive[c] = TRUE
    /\ lastOp.type = "tick" =>
           /\ lastOp.terminates \cap lastOp.acked = {}
           /\ lastOp.acked \subseteq lastOp.probed
           /\ \A c \in lastOp.acked : c \notin terminated
C11_Witness ==
    /\ lastOp.type = "tick"
    /\ lastOp.acked # {}
    /\ lastOp.terminates # {}

\* C12: a creation request whose senderId equals its receiverId is answered
\* with 400, stores no row and sends no frame; no stored message, no message
\* on its way to the table and no newMessage frame has senderId = receiverId.
C12_SelfMessageRejected ==
    /\ (lastOp.type = "post" /\ lastOp.senderId = lastOp.receiverId) =>
           lastOp.status = 400 /\ sent = <<>>
    /\ \A i \in 1..Len(messages) : messages[i].senderId # messages[i].receiverId
    /\ \A h \in BagToSet(pending) : h.kind = "post" => h.row.senderId # h.row.receiverId
    /\ \A i \in 1..Len(sent) :
           sent[i].ev.type = "newMessage" =>
               sent[i].ev.payload.senderId # sent[i].ev.payload.receiverId
C12_Witness ==
    /\ lastOp.type = "post"
    /\ lastOp.senderId = lastOp.receiverId
    /\ lastOp.status = 400
    /\ IsOpen(clients[lastOp.senderId])
    /\ messages = <<>>

\* C13: an edit of a stored message changes its content and nothing else (same
\* id, same createdAt), a delete sets deleted and nothing else (the content,
\* edited or not, stays), and after either the message is still returned by
\* the conversation fetch.
Retrievable(row) ==
    LET rows == getMessagesBetweenUsers(messages, row.receiverId, row.senderId)
    IN  \E i \in 1..Len(rows) : rows[i] = row
C13_EditDeleteRoundTrip ==
    /\ (lastOp.type = "edit" /\ lastOp.before # NoRow) =>
           /\ getMessage(messages, lastOp.id) =
                  [lastOp.before EXCEPT !.content = lastOp.content]
           /\ Retrievable(getMessage(messages, lastOp.id))
    /\ (lastOp.type = "delete" /\ lastOp.before # NoRow) =>
           /\ getMessage(messages, lastOp.id) = [lastOp.before EXCEPT !.deleted = TRUE]
           /\ Retrievable(getMessage(messages, lastOp.id))
    /\ \A i \in 1..Len(messages) : messages[i].id = i
C13_Witness ==
    /\ lastOp.type = "delete"
    /\ lastOp.before # NoRow
    /\ lastOp.before.content = "hi"
    /\ ~lastOp.before.deleted

\* C14: a typing{receiverId} frame of a socket bound to a user makes the
\* server send exactly one frame, typing{userId: the sender's bound id}, to
\* the socket registered for receiverId when that socket is open; otherwise
\* no frame at all is sent (none to the sender either).
C14_TypingRelay ==
    (lastOp.type = "typing" /\ lastOp.user # NoUser) =>
        IF IsOpen(clientsGet(lastOp.receiverId))
        THEN sent = <<[to |-> clientsGet(lastOp.receiverId),
                       ev |-> TypingEvent(userId[lastOp.conn])]>>
        ELSE sent = <<>>
C14_Witness ==
    /\ lastOp.type = "typing"
    /\ lastOp.user # NoUser
    /\ lastOp.receiverId # lastOp.user
    /\ IsOpen(clientsGet(lastOp.receiverId))
    /\ clientsGet(lastOp.receiverId) # lastOp.conn
    /\ Len(sent) = 1

\* C15: a frame that does not parse or lacks a required field (no payload, an
\* auth payload without userId, a typing payload without receiverId), arriving
\* on an open socket, is answered with one error event on that socket, and
\* the step leaves the sockets' states, the registry and the stored rows as
\* they were.
LacksField(op) ==
    \/ op.type = "malformed"
    \/ op.type = "authIgnored"
    \/ op.type = "typing" /\ op.receiverId = NoUser
C15_MalformedAnswered ==
    [][(LacksField(lastOp') /\ readyState[lastOp'.conn] = "OPEN") =>
          /\ sent' = <<[to |-> lastOp'.conn, ev |-> ErrorEvent]>>
          /\ readyState' = readyState
          /\ clients' = clients
          /\ online' = online
          /\ messages' = messages]_vars

\* C16: when the relay of a created message finds no open registered socket
\* for the receiver, the request still answers 200, the row is stored and
\* returned by the conversation fetch, and no frame goes to a socket of the
\* receiver; nothing is kept for later: a newMessage frame is only ever sent
\* by the relay step of its own message, with the receiver connected at that
\* step, and each stored message has at most one relay step.
ReceiverUnreachable ==
    /\ lastOp.type = "postResume"
    /\ ~IsOpen(clients[lastOp.message.receiverId])
C16_UnreachableDropped ==
    /\ ReceiverUnreachable =>
           /\ lastOp.status = 200
           /\ getMessage(messages, lastOp.message.id) = lastOp.message
           /\ Retrievable(lastOp.message)
           /\ \A i \in 1..Len(sent) : userId[sent[i].to] # lastOp.message.receiverId
    /\ \A i \in 1..Len(sent) :
           sent[i].ev.type = "newMessage" =>
               /\ lastOp.type = "postResume"
               /\ sent[i].ev.payload = lastOp.message
               /\ IsOpen(clients[lastOp.message.receiverId])
    /\ \A h \in BagToSet(pending) :
           (h.kind = "post" /\ h.phase = "applied") =>
               /\ CopiesIn(h, pending) = 1
               /\ getMessage(messages, h.row.id) = h.row
               /\ ~(lastOp.type = "postResume" /\ lastOp.message.id = h.row.id)
C16_Witness ==
    /\ ReceiverUnreachable
    /\ clients[lastOp.message.receiverId] # NoConn
    /\ IsOpen(clients[lastOp.message.senderId])
    /\ Retrievable(lastOp.message)

ClosedBound ==
    (lastOp.type \in {"close", "closeUnbound"} /\ lastOp.user # NoUser) =>
        /\ lastOp.type = "close"
        /\ clients[lastOp.user] = NoConn
        /\ \E h \in BagToSet(pending) :
               /\ h.kind = "close" /\ h.conn = lastOp.conn /\ h.user = lastOp.user
               /\ h.value = FALSE /\ h.phase = "issued"
OfflineBroadcast ==
    lastOp.type = "closeResume" =>
        /\ lastOp.user = userId[lastOp.conn] \/ readyState[lastOp.conn] = "NONE"
        /\ \A i \in 1..Len(sent) : sent[i].ev = UserStatus(lastOp.user, FALSE)
        /\ \A c \in Conns :
               (Registered(c) /\ readyState[c] = "OPEN") =>
                   Frames(c, UserStatus(lastOp.user, FALSE)) >= 1
C18_OfflineOnEveryClose ==
    [][/\ ClosedBound'
       /\ OfflineBroadcast'
       /\ \A h \in BagToSet(pending) :
              (/\ h.kind = "close" /\ h.phase = "issued"
               /\ pending' = Suspend(Settle(pending, h), [h EXCEPT !.phase = "applied"]))
              => online'[h.user] = FALSE
       /\ (lastOp'.type = "closeResume") =>
              \E h \in BagToSet(pending) :
                  /\ h.kind = "close" /\ h.phase = "applied"
                  /\ h.conn = lastOp'.conn /\ h.user = lastOp'.user]_vars
C18_Witness ==
    /\ lastOp.type = "close"
    /\ lastOp.byMonitor
    /\ lastOp.registered = lastOp.conn
    /\ clients[lastOp.user] = NoConn

\* C19: an auth frame that finds an entry for its user closes the socket of
\* that entry with the normal-closure code 1000 and then installs its own
\* socket in the registry.
C19_EvictsWithNormalCode ==
    (lastOp.type = "auth" /\ lastOp.existingConnection # NoConn) =>
        /\ readyState[lastOp.existingConnection] # "OPEN"
        /\ lastOp.closeCode # "none" => lastOp.closeCode = "1000"
        /\ clients[lastOp.user] = lastOp.conn

\* C20: when two tabs connect for one user, the tab whose socket the server
\* evicted stays evicted (it does not reconnect), and once every handler has
\* finished and no tab is connecting or waiting, the socket of the tab that
\* was not evicted is OPEN and registered and the user's row is online.
SessionsStable ==
    /\ pending = EmptyBag
    /\ \A c \in Conns : readyState[c] \in {"NONE", "OPEN"}
    /\ \A t \in Tabs : \/ store[t].phase \in {"closed", "gaveUp"}
                        \/ (store[t].phase = "open" /\ userId[store[t].socket] # NoUser)
C20_DuplicateSessionsResolve ==
    /\ \A t \in Tabs : store[t].evicted =>
           store[t].phase = "closed" /\ store[t].socket = NoConn
    /\ (SessionsStable /\ \E t \in Tabs : store[t].evicted) =>
           \E t \in Tabs :
               /\ ~store[t].evicted
               /\ store[t].phase = "open"
               /\ readyState[store[t].socket] = "OPEN"
               /\ clients[store[t].userId] = store[t].socket
               /\ online[store[t].userId]

\* C21: once disconnect() has been called, whether the tab's socket was open,
\* still connecting, or the tab was waiting for its reconnect timer, the tab
\* creates no WebSocket and no socket of it opens and sends auth.
C21_LogoutStopsReconnect ==
    [][\A t \in Tabs :
           (store[t].loggedOut /\ store'[t].phase \in {"connecting", "open"}) =>
               store'[t].phase = store[t].phase]_vars

\* C22: no socket is the registry value of two different user ids.
C22_OneIdentityPerConnection ==
    \A c \in Conns : Cardinality({u \in Users : clients[u] = c}) <= 1

\* C23: a registry entry appears only in the step of an auth frame, for the
\* socket and the user id of that frame; and once the close handler of a
\* socket has finished, no registry entry refers to the socket.
CloseHandlerDone(c) ==
    /\ readyState[c] = "CLOSED"
    /\ \A h \in BagToSet(pending) : ~(h.kind = "close" /\ h.conn = c)
C23_EntryLifetime ==
    [][/\ \A u \in Users :
              (clients'[u] # clients[u] /\ clients'[u] # NoConn) =>
                  /\ lastOp'.type = "auth"
                  /\ lastOp'.user = u
                  /\ lastOp'.conn = clients'[u]
       /\ \A c \in Conns : CloseHandlerDone(c)' => ~Registered(c)']_vars

\* C24: a frame's handler makes its registry update or sends its frames only
\* when every handler of an earlier frame of the same socket has finished: no
\* auth handler of the socket is still suspended at its await, with its write
\* or its broadcast to come.
FrameEffect(op, frames) ==
    \/ op.type = "auth"
    \/ op.type \in {"typing", "malformed"} /\ frames # <<>>
C24_ArrivalOrder ==
    [][FrameEffect(lastOp', sent') =>
           \A h \in BagToSet(pending) :
               ~(h.kind = "auth" /\ h.conn = lastOp'.conn)]_vars

\* C25: a creation request for two distinct users that passes the validation
\* calls createMessage with the given content, senderId and receiverId, with
\* mediaUrl null when none was supplied and deleted false; the INSERT stores
\* that row under an id no earlier row has and leaves the earlier rows alone;
\* and the request is answered 200 with the row the INSERT stored.
Created(op, t) ==
    [id |-> 0, senderId |-> op.senderId, receiverId |-> op.receiverId,
     content |-> op.content,
     mediaUrl |-> IF op.mediaUrl = "" THEN NULL ELSE op.mediaUrl,
     createdAt |-> t, deleted |-> FALSE]
C25_CreateMessage ==
    [][/\ (/\ lastOp'.type = "post"
            /\ lastOp'.senderId # lastOp'.receiverId
            /\ (Trim(lastOp'.content) # "" \/ lastOp'.mediaUrl # "")) =>
              /\ lastOp'.status = 200
              /\ \E h \in BagToSet(pending') :
                     /\ h.kind = "post" /\ h.phase = "issued"
                     /\ h.row = Created(lastOp', now)
                     /\ pending' = Suspend(pending, h)
       /\ (lastOp'.type = "dbApply" /\ lastOp'.kind = "post") =>
              /\ Len(messages') = Len(messages) + 1
              /\ \A i \in 1..Len(messages) :
                     /\ messages'[i] = messages[i]
                     /\ messages[i].id # messages'[Len(messages')].id
              /\ \E h \in BagToSet(pending) :
                     /\ h.kind = "post" /\ h.phase = "issued"
                     /\ messages'[Len(messages')] =
                            [h.row EXCEPT !.id = messages'[Len(messages')].id]
                     /\ pending' = Suspend(Settle(pending, h),
                            [h EXCEPT !.phase = "applied",
                                      !.row = messages'[Len(messages')]])
       /\ lastOp'.type = "postResume" =>
              /\ lastOp'.status = 200
              /\ ~lastOp'.message.deleted
              /\ getMessage(messages, lastOp'.message.id) # NoRow
              /\ \E h \in BagToSet(pending) :
                     h.kind = "post" /\ h.phase = "applied" /\ h.row = lastOp'.message]_vars
C25_Witness ==
    /\ lastOp.type = "postResume"
    /\ Len(messages) = 2
    /\ messages[1].id = 1
    /\ lastOp.message.id = 2
    /\ lastOp.message.content = "hello"
    /\ lastOp.message.mediaUrl = NULL
    /\ lastOp.message.senderId # lastOp.message.receiverId

\* C26: a tick does one of two things to every socket that is OPEN: a socket
\* whose isAlive is false is terminated and gets no ping; any other is marked
\* (isAlive false), stays open and gets exactly one ping. The tick sends
\* nothing else.
C26_TickVisitsEveryOpen ==
    [][lastOp'.type = "tick" =>
           /\ \A c \in Conns :
                  readyState[c] = "OPEN" =>
                      IF isAlive[c] = FALSE
                      THEN /\ c \in terminated'
                           /\ readyState'[c] # "OPEN"
                           /\ Frames(c, [type |-> "ping"])' = 0
                      ELSE /\ isAlive'[c] = FALSE
                           /\ c \notin terminated'
                           /\ readyState'[c] = "OPEN"
                           /\ Frames(c, [type |-> "ping"])' = 1
           /\ \A i \in 1..Len(sent') :
                  sent'[i].ev = [type |-> "ping"] /\ readyState[sent'[i].to] = "OPEN"]_vars
C26_Witness ==
    /\ lastOp.type = "tick"
    /\ lastOp.terminates # {}
    /\ Len(sent) = 1
    /\ sent[1].to \in lastOp.probed
    /\ \A c \in lastOp.terminates : readyState[c] = "CLOSING"

\* C27: in a quiescent state the userStatus frames sent last for a user agree
\* with the registry: when the step that ended the last suspended handler
\* broadcast userStatus{U, v}, that broadcast is the most recent one for U,
\* and v is true exactly when the registry holds an entry for U.
C27_BroadcastMatchesRegistry ==
    (Quiescent /\ lastOp.type \in {"authResume", "closeResume"}) =>
        \A i \in 1..Len(sent) :
            (sent[i].ev.type = "userStatus" /\ sent[i].ev.userId \in Users) =>
                (sent[i].ev.online <=> clients[sent[i].ev.userId] # NoConn)

\* C28: a newMessage frame is sent only by the continuation of a creation
\* request that answers 200, after its INSERT: the payload of every newMessage
\* frame is a row of the table under its id, a request answered with 400
\* sends no frame and leaves no handler behind that could send one later.
Persisted(message) ==
    /\ getMessage(messages, message.id) # NoRow
    /\ getMessage(messages, message.id) = message
C28_RelayAfterPersist ==
    /\ \A i \in 1..Len(sent) :
           sent[i].ev.type = "newMessage" =>
               /\ Persisted(sent[i].ev.payload)
               /\ lastOp.type = "postResume" /\ lastOp.status = 200
               /\ lastOp.message = sent[i].ev.payload
    /\ (lastOp.type = "post" /\ lastOp.status = 400) =>
           /\ sent = <<>>
           /\ \A h \in BagToSet(pending) :
                  h.kind = "post" =>
                      ~(/\ h.row.senderId = lastOp.senderId
                        /\ h.row.receiverId = lastOp.receiverId
                        /\ h.row.content = lastOp.content
                        /\ h.row.mediaUrl = MediaUrlOrNull(lastOp.mediaUrl))
C28_Witness ==
    /\ lastOp.type = "postResume"
    /\ Len(sent) = 1
    /\ sent[1].ev.type = "newMessage"
    /\ Persisted(sent[1].ev.payload)
    /\ ~IsOpen(clients[lastOp.message.senderId])

\* C29: every row of the message table has content that is not blank or has
\* a mediaUrl, after any sequence of creation, edit and delete requests; a
\* creation request with blank content and no mediaUrl is answered with 400
\* and stores nothing.
HasBody(row) == Trim(row.content) # "" \/ row.mediaUrl # NULL
C29_ContentOrMedia ==
    /\ \A i \in 1..Len(messages) : HasBody(messages[i])
    /\ \A h \in BagToSet(pending) : h.kind = "post" => HasBody(h.row)
    /\ (/\ lastOp.type = "post"
        /\ Trim(lastOp.content) = ""
        /\ MediaUrlOrNull(lastOp.mediaUrl) = NULL) => lastOp.status = 400

\* C30: the chat summary of user u has one entry for each user with whom u
\* has exchanged a message, in either direction, and none for anyone else;
\* the lastMessage of an entry was exchanged by u and the entry's user, and
\* no message exchanged by the two has a later createdAt.
Exchanged(u, v) ==
    {i \in 1..Len(messages) :
        \/ (messages[i].senderId = u /\ messages[i].receiverId = v)
        \/ (messages[i].senderId = v /\ messages[i].receiverId = u)}
Counterparts(u) == {v \in ChatUsers : Exchanged(u, v) # {}}
C30_ChatSummary ==
    lastOp.type = "chats" =>
        LET u == lastOp.userId
            chats == lastOp.chats
        IN  /\ {chats[i].userId : i \in 1..Len(chats)} = Counterparts(u)
            /\ \A i, j \in 1..Len(chats) : chats[i].userId = chats[j].userId => i = j
            /\ \A i \in 1..Len(chats) :
                   /\ \E k \in Exchanged(u, chats[i].userId) :
                          messages[k] = chats[i].lastMessage
                   /\ \A k \in Exchanged(u, chats[i].userId) :
                          messages[k].createdAt <= chats[i].lastMessage.createdAt
C30_Witness ==
    /\ lastOp.type = "chats"
    /\ Len(lastOp.chats) = 1
    /\ Len(messages) = 3
    /\ Cardinality(Exchanged(lastOp.userId, lastOp.chats[1].userId)) = 2
    /\ lastOp.chats[1].lastMessage.id = 1
    /\ \E k \in Exchanged(lastOp.userId, lastOp.chats[1].userId) :
           messages[k].createdAt < lastOp.chats[1].lastMessage.createdAt

\* C31: the conversation fetch of users a and b returns each stored row whose
\* sender and receiver are a and b, in either direction, once, rows marked
\* deleted included, and no other row; the rows come by rising createdAt;
\* the fetch of b and a over the same table returns the same sequence.
Between(a, b) ==
    {i \in 1..Len(messages) :
        \/ (messages[i].senderId = a /\ messages[i].receiverId = b)
        \/ (messages[i].senderId = b /\ messages[i].receiverId = a)}
TokenPaired(row) ==
    (row.verificationToken = NULL) <=> (row.verificationTokenExpiry = NoExpiry)
C32_TokenAndExpiryPaired ==
    /\ \A i \in 1..Len(users) : TokenPaired(users[i])
    /\ \A h \in BagToSet(pending) : h.kind \in {"register", "google"} => TokenPaired(h.row)
C32_Witness ==
    /\ lastOp.type = "verifyResume"
    /\ Len(users) = 2
    /\ users[lastOp.id].emailVerified
    /\ users[lastOp.id].verificationToken = NULL
    /\ \E i \in 1..Len(users) :
           users[i].verificationToken # NULL /\ users[i].verificationTokenExpiry > now

\* C33: no two rows of the users table have the same email, whatever the
\* order in which the lookups and INSERTs of concurrent registration and
\* Google sign-in requests reach the table: of two requests for one email
\* that both found no user, the second INSERT fails.
C33_EmailUnique ==
    \A i, j \in 1..Len(users) : users[i].email = users[j].email => i = j
C33_Witness ==
    /\ lastOp.type = "createUser"
    /\ lastOp.kind = "register"
    /\ lastOp.status = 400
    /\ Len(users) = 1
    /\ users[1].googleId # NULL

\* C37: a password login answers 200 with the user's id only when a user of
\* that email exists, its stored password is the one supplied and its
\* emailVerified is true; with the right password and emailVerified false it
\* answers 403 (email not verified). The emailVerified of a row created by a
\* registration becomes true only by the UPDATE of a verify-email request, so
\* until then no login of that user succeeds.
LoginChecked(op) ==
    op.type = "login" =>
        LET user == getUserByEmail(users, op.email)
            known == user # NoUserRow /\ user.password = op.password
        IN  /\ op.status = 200 => (known /\ user.emailVerified /\ op.id = user.id)
            /\ (known /\ ~user.emailVerified) => op.status = 403
            /\ ~known => op.status = 401
VerifiedOnlyByVerifyEmail ==
    \A i \in 1..Len(users') :
        (/\ users'[i].googleId = NULL
         /\ users'[i].emailVerified
         /\ (i > Len(users) \/ ~users[i].emailVerified)) =>
            (lastOp'.type = "verifyUserEmail" /\ lastOp'.id = users'[i].id)
C37_LoginNeedsVerifiedEmail ==
    [][LoginChecked(lastOp') /\ VerifiedOnlyByVerifyEmail]_vars
C37_Witness ==
    /\ lastOp.type = "login"
    /\ lastOp.status = 403
    /\ getUserByEmail(users, lastOp.email).password = lastOp.password
    /\ getUserByEmail(users, lastOp.email).verificationToken # NULL
    /\ \E i \in 1..Len(users) : users[i].googleId = NULL /\ users[i].emailVerified

\* C38: a verify-email request is accepted exactly when its token is the
\* verificationToken of a row whose expiry is after the server's clock; a
\* rejected request (unknown, expired or used token) answers 400 and changes
\* no row, then or later. An accepted request sets emailVerified of that row
\* and clears its token and expiry, and answers 200; after that no row holds
\* the token, so it is not accepted again.
Holder(token) ==
    {i \in 1..Len(users) :
        users[i].verificationToken = token /\ users[i].verificationTokenExpiry > now}
Verified(row) ==
    /\ row.emailVerified
    /\ row.verificationToken = NULL
    /\ row.verificationTokenExpiry = NoExpiry
VerifyStep ==
    /\ lastOp'.type = "verify" =>
           /\ users' = users
           /\ lastOp'.status = 400 <=> Holder(lastOp'.token) = {}
           /\ lastOp'.status = 400 => pending' = pending
           /\ lastOp'.status # 400 => lastOp'.id \in Holder(lastOp'.token)
    /\ lastOp'.type \in {"verifyUserEmail", "verifyResume"} =>
           /\ Len(users') = Len(users)
           /\ \A i \in 1..Len(users) :
                  IF users[i].id = lastOp'.id THEN Verified(users'[i])
                  ELSE users'[i] = users[i]
           /\ \A i \in 1..Len(users') : users'[i].verificationToken # lastOp'.token
    /\ lastOp'.type = "verifyResume" => lastOp'.status = 200
C38_VerifyEmailSingleUse == [][VerifyStep]_vars
C38_Witness ==
    /\ lastOp.type = "verify"
    /\ lastOp.status = 400
    /\ lastOp.token = TokenOf[1]
    /\ now = 0
    /\ Len(users) = 1
    /\ Verified(users[1])
    /\ users[1].googleId = NULL
    /\ pending = EmptyBag

\* C34: the WebSockets one connect() call creates have the retry counts 0, 1,
\* 2, ... in the order of their creation, whether or not one of them opened
\* in between, and there are at most 5 of them; the timer armed by the close
\* of the socket with retry count n waits 1000, 2000, 4000, 8000, 10000 ms
\* for n = 0..4 and carries n + 1; the timer that carries 5 creates no socket
\* and clears isConnecting, and leaves the call with no socket and no timer.
SocketsOf(call) == {k \in 1..Len(page.ws) : page.ws[k].call = call}
BackoffMs == <<1000, 2000, 4000, 8000, 10000>>
GivesUp ==
    \E tm \in page.timers :
        /\ tm.retryCount >= maxRetries
        /\ page'.timers = page.timers \ {tm}
C34_ReconnectTerminates ==
    [][/\ \A call \in 1..page'.calls :
              /\ Cardinality(SocketsOf(call)') <= 5
              /\ \A k \in SocketsOf(call)' :
                     page'.ws[k].retryCount =
                         Cardinality({j \in SocketsOf(call)' : j < k})
       /\ \A tm \in page'.timers :
              /\ tm.retryCount = page'.ws[tm.from].retryCount + 1
              /\ tm.delay = BackoffMs[tm.retryCount]
              /\ tm.call = page'.ws[tm.from].call
       /\ GivesUp =>
              /\ page'.ws = page.ws
              /\ ~page'.isConnecting
              /\ \A tm \in page.timers \ page'.timers :
                     /\ \A k \in SocketsOf(tm.call) : page.ws[k].readyState = "CLOSED"
                     /\ \A other \in page'.timers : other.call # tm.call]_vars
C34_Witness ==
    /\ Cardinality(SocketsOf(1)) = 5
    /\ page.ws[5].call = 1
    /\ page.ws[5].retryCount = 4
    /\ page.ws[5].readyState = "CLOSED"
    /\ page.ws[3].opened
    /\ page.timers = {}
    /\ ~page.isConnecting
    /\ page.calls = 1

\* C35: of the WebSockets and timers of a page, at most one is live at any
\* time: the sockets that are connecting or open and the armed reconnect
\* timers together number at most one.
LiveSockets == {k \in 1..Len(page.ws) : page.ws[k].readyState \in {"CONNECTING", "OPEN"}}
C35_OneSocketAtATime ==
    Cardinality(LiveSockets) + Cardinality(page.timers) <= 1

\* C36: a socket that has sent no auth frame is bound to no user and is no
\* registry value; a typing frame of it sends nothing, neither to the
\* receiver nor back; its 'close' event, after a close of its own or after the
\* monitor terminated it, deletes no registry entry, issues no write of an
\* online flag and leaves no handler behind that would write or broadcast;
\* the tick that terminates it changes none of these either.
Untouched ==
    /\ clients' = clients
    /\ online' = online
    /\ pending' = pending
    /\ sent' = <<>>
GuestStep ==
    /\ \A c \in Conns \ Hosts : userId'[c] = NoUser /\ ~Registered(c)'
    /\ (lastOp'.type \in {"typing", "close", "closeUnbound"} /\ lastOp'.conn \notin Hosts) =>
           (lastOp'.type # "close" /\ Untouched)
    /\ (lastOp'.type = "tick" /\ lastOp'.terminates \ Hosts # {}) =>
           /\ clients' = clients /\ online' = online /\ pending' = pending
           /\ \A i \in 1..Len(sent') : sent'[i].ev.type # "userStatus"
C36_GuestsLeaveNoTrace == [][GuestStep]_vars
C36_Witness ==
    /\ lastOp.type = "typing"
    /\ lastOp.conn \notin Hosts
    /\ lastOp.receiverId \in Users
    /\ IsOpen(clients[lastOp.receiverId])
    /\ online[lastOp.receiverId]
    /\ terminated \ Hosts = {}
    /\ sent = <<>>
====
